---------------------------- MODULE Spec2Model ----------------------------
(***************************************************************************)
(* Model of the two example scripts of the repository:                    *)
(*                                                                         *)
(*   examples/plot_qualifying_results.py   ("plot" below)                  *)
(*   examples/practice_predictive_order.py ("practice" below)              *)
(*                                                                         *)
(* Three state machines share the definitions of this module:             *)
(*                                                                         *)
(*   SpecEval    the body of the evaluate_event loop: align the two       *)
(*               ranked lists, then call spearmanr                        *)
(*   SpecLaps    filter_meaningful, pick_fastest and sort_values on one   *)
(*               collection of laps                                       *)
(*   SpecSeason  main / analyze_season of either script: the plotting     *)
(*               loop, the loop over the events, the aggregation          *)
(*                                                                         *)
(* Correlations are IEEE-754 binary64 numbers, the type scipy and pandas  *)
(* compute with.  They are modelled bit for bit: a number is a sign, a    *)
(* 53-bit significand and an exponent, and every operation rounds to      *)
(* nearest, ties to even.                                                  *)
(***************************************************************************)
EXTENDS Integers, Sequences, FiniteSets, TLC

(***************************************************************************)
(* Bounds of the model.                                                    *)
(***************************************************************************)
MaxLen == 3        \* longest ranked list handed to the evaluator
MaxLaps == 3       \* most lap records in one collection
NumEvents == 2     \* most events in a season's schedule

(***************************************************************************)
(* Natural numbers of up to NumLimbs * LimbBits bits, little-endian limbs. *)
(* They carry the significands of the binary64 arithmetic below.           *)
(***************************************************************************)
LimbBits == 15
NumLimbs == 9
MantBits == 53
Base == 2^LimbBits
Limbs == 1..NumLimbs

RECURSIVE Carry(_, _, _)
Carry(t, i, c) ==
    IF i > NumLimbs THEN <<>>
    ELSE <<(t[i] + c) % Base>> \o Carry(t, i + 1, (t[i] + c) \div Base)

BZero == [i \in Limbs |-> 0]
BSmall(n) == Carry([i \in Limbs |-> IF i = 1 THEN n ELSE 0], 1, 0)
BAdd(a, b) == Carry([i \in Limbs |-> a[i] + b[i]], 1, 0)
BSub(a, b) == Carry([i \in Limbs |-> a[i] - b[i]], 1, 0)
BMulSmall(a, k) == Carry([i \in Limbs |-> a[i] * k], 1, 0)
BIsZero(a) == \A i \in Limbs : a[i] = 0
BGeq(a, b) ==
    LET D == {i \in Limbs : a[i] # b[i]}
    IN  D = {} \/ (LET h == CHOOSE i \in D : \A j \in D : j <= i IN a[h] > b[h])
BShl(a, n) ==
    LET q == n \div LimbBits
        r == n % LimbBits
    IN  Carry([i \in Limbs |-> IF i - q >= 1 THEN a[i - q] * 2^r ELSE 0], 1, 0)
BShr(a, n) ==
    LET q == n \div LimbBits
        r == n % LimbBits
        at(i) == IF i <= NumLimbs THEN a[i] ELSE 0
    IN  [i \in Limbs |->
            (at(i + q) \div 2^r) + (at(i + q + 1) % 2^r) * 2^(LimbBits - r)]
BitLen(v) == CHOOSE k \in 0..LimbBits : v < 2^k /\ (k = 0 \/ v >= 2^(k - 1))
BLen(a) ==
    LET D == {i \in Limbs : a[i] # 0}
    IN  IF D = {} THEN 0
        ELSE LET h == CHOOSE i \in D : \A j \in D : j <= i
             IN  (h - 1) * LimbBits + BitLen(a[h])
BOdd(a) == a[1] % 2 = 1
BLowZero(a, n) == a = BShl(BShr(a, n), n)

RECURSIVE BDivSmallFrom(_, _, _, _)
BDivSmallFrom(a, k, i, r) ==
    IF i = 0 THEN <<r>>
    ELSE LET cur == r * Base + a[i]
         IN  BDivSmallFrom(a, k, i - 1, cur % k) \o <<cur \div k>>
\* <<remainder, quotient limb 1, ..., quotient limb NumLimbs>>
BDivSmall(a, k) == BDivSmallFrom(a, k, NumLimbs, 0)

(***************************************************************************)
(* binary64.  A number is s * m * 2^e with s in {-1, 0, 1} and, unless it  *)
(* is zero, 2^52 <= m < 2^53.  NaN is the no-data value of numpy, scipy    *)
(* and pandas.                                                             *)
(***************************************************************************)
NaN == [nan |-> TRUE, s |-> 0, m |-> BZero, e |-> 0]
FZero == [nan |-> FALSE, s |-> 0, m |-> BZero, e |-> 0]

\* sgn * N * 2^e (plus less than one unit of N when sticky), rounded to
\* nearest, ties to even.
Round(sgn, N, e, sticky) ==
    LET L == BLen(N)
    IN  IF L = 0 THEN FZero
        ELSE IF L <= MantBits
        THEN [nan |-> FALSE, s |-> sgn, m |-> BShl(N, MantBits - L),
              e |-> e - (MantBits - L)]
        ELSE LET d  == L - MantBits
                 m0 == BShr(N, d)
                 g  == BOdd(BShr(N, d - 1))
                 st == sticky \/ ~BLowZero(N, d - 1)
                 m1 == IF g /\ (st \/ BOdd(m0)) THEN BAdd(m0, BSmall(1)) ELSE m0
             IN  IF BLen(m1) > MantBits
                 THEN [nan |-> FALSE, s |-> sgn, m |-> BShr(m1, 1), e |-> e + d + 1]
                 ELSE [nan |-> FALSE, s |-> sgn, m |-> m1, e |-> e + d]

Abs(k) == IF k < 0 THEN -k ELSE k
Sign(k) == IF k < 0 THEN -1 ELSE IF k = 0 THEN 0 ELSE 1
FromInt(k) == Round(Sign(k), BSmall(Abs(k)), 0, FALSE)
FOne == FromInt(1)
FMinusOne == FromInt(-1)

\* x * k / 2^sh for an integer k: the product of x and an exact small number
FMulDyadic(x, k, sh) ==
    IF x.nan THEN NaN
    ELSE IF k = 0 \/ x.s = 0 THEN FZero
    ELSE Round(x.s * Sign(k), BMulSmall(x.m, Abs(k)), x.e - sh, FALSE)

\* Long division, one quotient bit per step: qr = <<quotient, remainder>>.
RECURSIVE DivLoop(_, _, _)
DivLoop(qr, D, n) ==
    IF n = 0 THEN qr
    ELSE IF BGeq(qr[2], D)
         THEN DivLoop(<<Carry([i \in Limbs |-> 2 * qr[1][i] + (IF i = 1 THEN 1 ELSE 0)], 1, 0),
                        Carry([i \in Limbs |-> 2 * (qr[2][i] - D[i])], 1, 0)>>, D, n - 1)
         ELSE DivLoop(<<Carry([i \in Limbs |-> 2 * qr[1][i]], 1, 0),
                        Carry([i \in Limbs |-> 2 * qr[2][i]], 1, 0)>>, D, n - 1)
FDiv(x, y) ==
    IF x.nan \/ y.nan THEN NaN
    ELSE IF y.s = 0 THEN NaN      \* 0/0; x/0 with x # 0 does not arise here
    ELSE IF x.s = 0 THEN FZero
    ELSE LET qr == DivLoop(<<BZero, x.m>>, y.m, MantBits + 3)
         IN  Round(x.s * y.s, qr[1], x.e - y.e - (MantBits + 2), ~BIsZero(qr[2]))

\* Square root, one root bit per step from two bits of N:
\* rr = <<root, remainder>>.
RECURSIVE SqrtLoop(_, _, _)
SqrtLoop(N, rr, n) ==
    IF n = 0 THEN rr
    ELSE LET pair  == BShr(N, 2 * (n - 1))[1] % 4
             r4    == Carry([i \in Limbs |-> 4 * rr[2][i] + (IF i = 1 THEN pair ELSE 0)], 1, 0)
             trial == Carry([i \in Limbs |-> 4 * rr[1][i] + (IF i = 1 THEN 1 ELSE 0)], 1, 0)
         IN  IF BGeq(r4, trial)
             THEN SqrtLoop(N, <<Carry([i \in Limbs |-> 2 * rr[1][i] + (IF i = 1 THEN 1 ELSE 0)], 1, 0),
                                BSub(r4, trial)>>, n - 1)
             ELSE SqrtLoop(N, <<Carry([i \in Limbs |-> 2 * rr[1][i]], 1, 0), r4>>, n - 1)
FSqrt(x) ==
    IF x.nan \/ x.s < 0 THEN NaN
    ELSE IF x.s = 0 THEN FZero
    ELSE LET odd == x.e % 2 = 1
             ee  == IF odd THEN x.e - 1 ELSE x.e
             mm  == IF odd THEN BShl(x.m, 1) ELSE x.m
             rr  == SqrtLoop(BShl(mm, MantBits + 3), <<BZero, BZero>>, MantBits + 2)
         IN  Round(1, rr[1], (ee - (MantBits + 3)) \div 2, ~BIsZero(rr[2]))

FNeg(x) == [x EXCEPT !.s = -x.s]
FAdd(x, y) ==
    IF x.nan \/ y.nan THEN NaN
    ELSE IF x.s = 0 THEN y
    ELSE IF y.s = 0 THEN x
    ELSE IF x.e - y.e > MantBits + 3 THEN x     \* y is below a quarter ulp of x
    ELSE IF y.e - x.e > MantBits + 3 THEN y
    ELSE LET e0 == IF x.e < y.e THEN x.e ELSE y.e
             X  == BShl(x.m, x.e - e0)
             Y  == BShl(y.m, y.e - e0)
         IN  IF x.s = y.s THEN Round(x.s, BAdd(X, Y), e0, FALSE)
             ELSE IF BGeq(X, Y) THEN Round(x.s, BSub(X, Y), e0, FALSE)
             ELSE Round(y.s, BSub(Y, X), e0, FALSE)
FSub(x, y) == FAdd(x, FNeg(y))
\* x / k for a count k >= 1
FDivInt(x, k) ==
    IF x.nan THEN NaN
    ELSE IF x.s = 0 THEN FZero
    ELSE LET qr == BDivSmall(BShl(x.m, LimbBits), k)
         IN  Round(x.s, Tail(qr), x.e - LimbBits, qr[1] # 0)
\* x < y, both numbers
FLess(x, y) ==
    IF x.s # y.s THEN x.s < y.s
    ELSE IF x.s = 0 THEN FALSE
    ELSE LET lt == x.e < y.e \/ (x.e = y.e /\ ~BGeq(x.m, y.m))
             gt == x.e > y.e \/ (x.e = y.e /\ x.m # y.m /\ BGeq(x.m, y.m))
         IN  IF x.s = 1 THEN lt ELSE gt
FLeq(x, y) == ~FLess(y, x)

(***************************************************************************)
(* State.                                                                  *)
(***************************************************************************)
VARIABLES
    \* the evaluator (SpecEval)
    order,            \* the predictor list: drivers by fastest lap
    race_order,       \* the reference list: the classification
    common,           \* race_order restricted to the drivers of order
    prac_idx,         \* positions in order of the drivers of common
    corr,             \* what spearmanr returned
    spearmanr_calls,  \* how often spearmanr was called
    epc,              \* position in the loop body
    \* the lap pipeline (SpecLaps)
    laps,             \* session.laps: a sequence of [Driver, LapTime]
    q_avg,            \* the reference duration
    meaningful,       \* what filter_meaningful returned
    fastest,          \* what pick_fastest("Driver") returned
    ranked,           \* the sorted Series: the ranked list with its durations
    lscript,          \* which script's pipeline runs
    lpc,              \* position in the pipeline
    \* the season (SpecSeason)
    script,           \* "plot" or "practice"
    pc,               \* position in main
    schedule,         \* the round numbers of the season's events, ascending
    rnd,              \* the round (plot) or schedule position (practice) at hand
    plotted,          \* sessions of the first event plotted so far
    result_list,      \* one table (a sequence of rows) per evaluated event
    season_results,   \* pd.concat(result_list)
    avg,              \* the per-session means
    best,             \* the reported session
    failure           \* why main ended with an exception

evalVars == <<order, race_order, common, prac_idx, corr, spearmanr_calls, epc>>
lapVars == <<laps, q_avg, meaningful, fastest, ranked, lscript, lpc>>
seasonVars == <<script, pc, schedule, rnd, plotted, result_list, season_results,
                avg, best, failure>>
vars == <<evalVars, lapVars, seasonVars>>

Range(s) == {s[i] : i \in 1..Len(s)}

(***************************************************************************)
(* scipy.stats.spearmanr(a, b) on two sequences of integers: the Pearson   *)
(* correlation (numpy.corrcoef) of their ranks (scipy.stats.rankdata).     *)
(***************************************************************************)
\* Twice the rank of each element; tied elements share the average rank.
rankdata(x) ==
    [i \in 1..Len(x) |->
        2 * Cardinality({j \in 1..Len(x) : x[j] < x[i]})
          + Cardinality({j \in 1..Len(x) : x[j] = x[i]}) + 1]

\* Twice the deviation of each rank from the mean rank (n + 1) / 2.
deviations(r) == [i \in 1..Len(r) |-> r[i] - (Len(r) + 1)]

RECURSIVE dot(_, _)
dot(u, v) == IF Len(u) = 0 THEN 0 ELSE u[1] * v[1] + dot(Tail(u), Tail(v))

\* numpy.cov of the two variables: each exact sum of products (dot / 4, the
\* deviations being doubled) times the rounded factor 1 / (n - 1).
cov(da, db) ==
    LET norm == FDiv(FOne, FromInt(Len(da) - 1))
    IN  [c00 |-> FMulDyadic(norm, dot(da, da), 2),
         c11 |-> FMulDyadic(norm, dot(db, db), 2),
         c10 |-> FMulDyadic(norm, dot(db, da), 2)]

clip(x) ==
    IF x.nan THEN NaN
    ELSE IF FLess(FOne, x) THEN FOne
    ELSE IF FLess(x, FMinusOne) THEN FMinusOne
    ELSE x

\* Entry [1, 0] of numpy.corrcoef of the two rank vectors: the covariance,
\* divided by the standard deviation of its row, then by that of its column,
\* then clipped to [-1, 1].
corrcoef(ra, rb) ==
    LET c       == cov(deviations(ra), deviations(rb))
        stddev0 == FSqrt(c.c00)
        stddev1 == FSqrt(c.c11)
    IN  clip(FDiv(FDiv(c.c10, stddev1), stddev0))

\* The textbook shortcut 1 - 6 * sum(d^2) / (n * (n^2 - 1)) applied to the
\* values themselves, not to their ranks.
spearmanr_unranked(a, b) ==
    LET n  == Len(a)
        d  == [i \in 1..n |-> a[i] - b[i]]
    IN  IF n <= 1 THEN NaN
        ELSE FSub(FOne, FDiv(FromInt(6 * dot(d, d)), FromInt(n * (n * n - 1))))

spearmanr(a, b) ==
    IF Len(a) <= 1 THEN NaN
    ELSE corrcoef(rankdata(a), rankdata(b))

(***************************************************************************)
(* The alignment of the two ranked lists.                                  *)
(***************************************************************************)
\* race_order[race_order.isin(order)]
isin(reference, predictor) ==
    LET in_predictor(d) == d \in Range(predictor)
    IN  SelectSeq(reference, in_predictor)

\* order.get_indexer(common): 0-based positions, -1 for a driver not in order
get_indexer(index, targets) ==
    [i \in 1..Len(targets) |->
        IF targets[i] \in Range(index)
        THEN (CHOOSE k \in 1..Len(index) : index[k] = targets[i]) - 1
        ELSE -1]

\* range(len(common))
range(n) == [i \in 1..n |-> i - 1]

\* The loop body of evaluate_event for one session: the correlation between
\* the predictor list and the reference list.
correlation(predictor, reference) ==
    LET cmn == isin(reference, predictor)
        idx == get_indexer(predictor, cmn)
    IN  spearmanr(idx, range(Len(idx)))

(***************************************************************************)
(* Inputs.                                                                 *)
(***************************************************************************)
Drivers == {"D1", "D2", "D3", "D4"}

RECURSIVE ListsOfLen(_, _)
ListsOfLen(D, n) ==
    IF n = 0 THEN {<<>>}
    ELSE {Append(l, d) : l \in ListsOfLen(D, n - 1), d \in D}

\* the duplicate-free lists over D of at most n drivers
RankedLists(D, n) ==
    UNION {{l \in ListsOfLen(D, k) : Cardinality(Range(l)) = k} : k \in 0..n}

Idle == "idle"

(***************************************************************************)
(* SpecEval: the body of the loop of evaluate_event, for one predictor     *)
(* list and one reference list.                                            *)
(***************************************************************************)
EvalIdle ==
    /\ order = <<>> /\ race_order = <<>> /\ common = <<>> /\ prac_idx = <<>>
    /\ corr = NaN /\ spearmanr_calls = 0 /\ epc = Idle
LapsIdle ==
    /\ laps = <<>> /\ q_avg = 0 /\ meaningful = <<>> /\ fastest = <<>>
    /\ ranked = <<>> /\ lscript = Idle /\ lpc = Idle
SeasonIdle ==
    /\ script = Idle /\ pc = Idle /\ schedule = <<>> /\ rnd = 0 /\ plotted = 0
    /\ result_list = <<>> /\ season_results = <<>> /\ avg = <<>>
    /\ best = "none" /\ failure = "none"

InitEval ==
    /\ order \in RankedLists(Drivers, MaxLen)
    /\ race_order \in RankedLists(Drivers, MaxLen)
    /\ common = <<>> /\ prac_idx = <<>> /\ corr = NaN
    /\ spearmanr_calls = 0
    /\ epc = "align"
    /\ LapsIdle /\ SeasonIdle

\* common = race_order[race_order.isin(order)]
\* prac_idx = order.get_indexer(common)
Align ==
    /\ epc = "align"
    /\ common' = isin(race_order, order)
    /\ prac_idx' = get_indexer(order, common')
    /\ epc' = "correlate"
    /\ UNCHANGED <<order, race_order, corr, spearmanr_calls, lapVars, seasonVars>>

\* race_idx = range(len(common)); corr, _ = spearmanr(prac_idx, race_idx)
Correlate ==
    /\ epc = "correlate"
    /\ corr' = spearmanr(prac_idx, range(Len(common)))
    /\ spearmanr_calls' = spearmanr_calls + 1
    /\ epc' = "done"
    /\ UNCHANGED <<order, race_order, common, prac_idx, lapVars, seasonVars>>

NextEval == Align \/ Correlate
SpecEval == InitEval /\ [][NextEval]_vars

Reverse(l) == [i \in 1..Len(l) |-> l[Len(l) + 1 - i]]
Shared == Range(order) \cap Range(race_order)
IsNumber(x) == ~x.nan

\* C2: when the predictor and the reference have fewer than 2 drivers in
\* common, the evaluator returns the no-data value without calling the
\* correlation computation.
C2_NoCorrelationBelowTwo ==
    (epc = "done" /\ Cardinality(Shared) < 2) => (corr = NaN /\ spearmanr_calls = 0)

\* C4: for duplicate-free lists that share at least 2 drivers the correlation
\* is a number in [-1, 1].
C4_CorrelationInRange ==
    (epc = "done" /\ Cardinality(Shared) >= 2)
        => (IsNumber(corr) /\ FLeq(FMinusOne, corr) /\ FLeq(corr, FOne))
C4_Witness ==
    /\ epc = "done" /\ Cardinality(Shared) = 3 /\ Len(order) = 3
    /\ race_order # order /\ race_order # Reverse(order)
    /\ IsNumber(corr) /\ FLess(FZero, corr) /\ FLess(corr, FOne)

\* C5: the correlation of a list of at least 2 drivers against itself is
\* exactly 1.0.
C5_SelfCorrelationIsOne ==
    (epc = "done" /\ Len(order) >= 2 /\ race_order = order) => corr = FOne

\* C6: the correlation of a list of at least 2 drivers against its reverse is
\* exactly -1.0.
C6_ReverseCorrelationIsMinusOne ==
    (epc = "done" /\ Len(order) >= 2 /\ race_order = Reverse(order))
        => corr = FMinusOne

(***************************************************************************)
(* SpecLaps: from the laps of a session to its ranked list.                *)
(*   practice: session_fast_laps    = filter_meaningful, pick_fastest,     *)
(*                                    sort_values                          *)
(*   plot:     session_result_order = pick_fastest, sort_values            *)
(***************************************************************************)
ThresholdPercent == 120     \* threshold = q_avg * 1.20

\* the filter with the comparison strict
filter_meaningful_strict(ls, ref) ==
    LET threshold == (ref * ThresholdPercent) \div 100
        keep(l) == l.LapTime < threshold
    IN  SelectSeq(ls, keep)

\* laps[laps["LapTime"] <= threshold], threshold = q_avg * 1.20: the product
\* of a Timedelta and a float is cut to a whole number of time units.
filter_meaningful(ls, ref) ==
    LET threshold == (ref * ThresholdPercent) \div 100
        keep(l) == l.LapTime <= threshold
    IN  SelectSeq(ls, keep)

MinTime(ls, d) ==
    CHOOSE t \in {l.LapTime : l \in {x \in Range(ls) : x.Driver = d}} :
        \A l \in Range(ls) : l.Driver = d => t <= l.LapTime

\* laps.pick_fastest("Driver"): for each driver, in the order the drivers
\* first appear, the record of its smallest lap time.
RECURSIVE pick_fastest_from(_, _)
pick_fastest_from(ls, rest) ==
    IF rest = <<>> THEN <<>>
    ELSE LET d == Head(rest).Driver
             other(l) == l.Driver # d
         IN  <<[Driver |-> d, LapTime |-> MinTime(ls, d)]>>
                 \o pick_fastest_from(ls, SelectSeq(Tail(rest), other))
pick_fastest(ls) == pick_fastest_from(ls, ls)

Injections(n) == {f \in [1..n -> 1..n] : \A i, j \in 1..n : f[i] = f[j] => i = j}
Ascending(t) == \A i \in 1..(Len(t) - 1) : t[i].LapTime <= t[i + 1].LapTime

\* the order the records are left in
sort_values_unsorted(t) == {t}

\* Series.sort_values(): the records by ascending lap time.  The default sort
\* is not stable, so records of equal lap time may come out in any order.
sort_values(t) ==
    {r \in {[i \in 1..Len(t) |-> t[f[i]]] : f \in Injections(Len(t))} : Ascending(r)}

\* .index of the sorted Series: the ranked list of drivers
index(t) == [i \in 1..Len(t) |-> t[i].Driver]

LapDrivers == {"D1", "D2"}
LapTimes == {88, 90, 95}
QAvgs == {70, 74, 75, 79, 80}
LapRecords == [Driver : LapDrivers, LapTime : LapTimes]
LapCollections == UNION {ListsOfLen(LapRecords, k) : k \in 0..MaxLaps}

InitLaps ==
    /\ laps \in LapCollections
    /\ \/ lscript = "practice" /\ q_avg \in QAvgs /\ lpc = "filter"
       \/ lscript = "plot" /\ q_avg = 0 /\ lpc = "pick_fastest"
    /\ meaningful = <<>> /\ fastest = <<>> /\ ranked = <<>>
    /\ EvalIdle /\ SeasonIdle

\* laps = filter_meaningful(session.laps, q_avg)
FilterMeaningful ==
    /\ lpc = "filter"
    /\ meaningful' = filter_meaningful(laps, q_avg)
    /\ lpc' = "pick_fastest"
    /\ UNCHANGED <<laps, q_avg, fastest, ranked, lscript, evalVars, seasonVars>>

\* what pick_fastest is called on: the filtered laps (practice) or
\* session.laps (plot)
ReducerInput == IF lscript = "practice" THEN meaningful ELSE laps

\* fastest = laps.pick_fastest("Driver")
PickFastest ==
    /\ lpc = "pick_fastest"
    /\ fastest' = pick_fastest(ReducerInput)
    /\ lpc' = "sort_values"
    /\ UNCHANGED <<laps, q_avg, meaningful, ranked, lscript, evalVars, seasonVars>>

\* fastest.set_index("Driver")["LapTime"].sort_values()
SortValues ==
    /\ lpc = "sort_values"
    /\ ranked' \in sort_values(fastest)
    /\ lpc' = "done"
    /\ UNCHANGED <<laps, q_avg, meaningful, fastest, lscript, evalVars, seasonVars>>

NextLaps == FilterMeaningful \/ PickFastest \/ SortValues
SpecLaps == InitLaps /\ [][NextLaps]_vars

DriversOf(ls) == {l.Driver : l \in Range(ls)}
TimesOf(ls, d) == {l.LapTime : l \in {x \in Range(ls) : x.Driver = d}}

RECURSIVE KeptFrom(_, _, _)
KeptFrom(ls, I, i) ==
    IF i > Len(ls) THEN <<>>
    ELSE (IF i \in I THEN <<ls[i]>> ELSE <<>>) \o KeptFrom(ls, I, i + 1)

\* C8: the filter returns exactly the records whose lap time is at most
\* 1.20 times the reference, in their original order (none at all when none
\* qualifies).
C8_FilterKeepsWithinThreshold ==
    (lscript = "practice" /\ lpc # "filter") =>
        meaningful =
            KeptFrom(laps, {i \in 1..Len(laps) : laps[i].LapTime * 100 <= q_avg * 120}, 1)
C8_Witness ==
    /\ lscript = "practice" /\ lpc = "pick_fastest" /\ q_avg = 75
    /\ Len(laps) = 3 /\ laps[1].LapTime = 95 /\ laps[2].LapTime = 90 /\ laps[3].LapTime = 88
    /\ Len(meaningful) = 2 /\ meaningful[1] = laps[2] /\ meaningful[2] = laps[3]

(***************************************************************************)
(* SpecSeason: main of either script.                                      *)
(***************************************************************************)
SESSIONS_TO_COMPARE == <<"FP1", "FP2", "FP3", "Q">>
\* the keys of the dict practice of evaluate_event (practice)
PracticeSessions == <<"FP2", "FP3">>
LastRound == 24             \* for rnd in range(1, 25)

\* What the Session Data Provider can hold for one event: the classification
\* (race position and qualifying position of each driver) and the laps of
\* each session.  Positions are distinct, and so are the fastest lap times of
\* the drivers of one session.
Lap(d, t) == [Driver |-> d, LapTime |-> t]
Result(d, p, q) == [Abbreviation |-> d, Position |-> p, QFPosition |-> q]
EventData == <<
    [results |-> <<Result("D2", 2, 1), Result("D1", 1, 2), Result("D3", 3, 3)>>,
     laps |-> [FP1 |-> <<Lap("D3", 90), Lap("D2", 91), Lap("D1", 95), Lap("D1", 92)>>,
               FP2 |-> <<Lap("D3", 120), Lap("D2", 88), Lap("D1", 89), Lap("D3", 93)>>,
               FP3 |-> <<Lap("D1", 90), Lap("D2", 91), Lap("D3", 92)>>,
               Q   |-> <<Lap("D2", 86), Lap("D1", 87), Lap("D3", 89)>>]],
    [results |-> <<Result("D1", 1, 1), Result("D2", 2, 2)>>,
     laps |-> [FP1 |-> <<Lap("D3", 90)>>,
               FP2 |-> <<Lap("D1", 88), Lap("D2", 89), Lap("D1", 87)>>,
               FP3 |-> <<Lap("D1", 105), Lap("D2", 106), Lap("D3", 85)>>,
               Q   |-> <<Lap("D1", 85), Lap("D4", 86)>>]] >>
Events == 1..Len(EventData)

\* session.results.sort_values(column)["Abbreviation"].reset_index(drop=True)
classification_order(results, column) ==
    LET n == Len(results)
        place(i) == Cardinality({j \in 1..n : results[j][column] < results[i][column]}) + 1
    IN  [k \in 1..n |-> results[CHOOSE i \in 1..n : place(i) = k].Abbreviation]
race_result_order(results) == classification_order(results, "Position")

\* session.laps.pick_fastest("Driver").set_index("Driver")["LapTime"]
\*     .sort_values().index
session_result_order(ls) == index(CHOOSE r \in sort_values(pick_fastest(ls)) : TRUE)

\* filter_meaningful, pick_fastest("Driver"), sort_values
session_fast_laps(ls, ref) ==
    CHOOSE r \in sort_values(pick_fastest(filter_meaningful(ls, ref))) : TRUE

RECURSIVE SumTimes(_)
SumTimes(ls) == IF ls = <<>> THEN 0 ELSE Head(ls).LapTime + SumTimes(Tail(ls))
\* quali.laps["LapTime"].mean(): a Timedelta, a whole number of time units
mean_lap_time(ls) == SumTimes(ls) \div Len(ls)

\* evaluate_event (plot), once the race has loaded: the correlation of every
\* session of SESSIONS_TO_COMPARE whose laps load, for each event the
\* provider can hold
plot_correlations ==
    [w \in Events |->
        [i \in 1..Len(SESSIONS_TO_COMPARE) |->
            correlation(session_result_order(EventData[w].laps[SESSIONS_TO_COMPARE[i]]),
                        race_result_order(EventData[w].results))]]

\* evaluate_event (plot): one row per session that loaded (those of avail)
evaluate_event_plot(w, avail) ==
    LET loaded(i) == SESSIONS_TO_COMPARE[i] \in avail
        data(i) == [session |-> SESSIONS_TO_COMPARE[i],
                    correlation |-> plot_correlations[w][i]]
        kept == SelectSeq([i \in 1..Len(SESSIONS_TO_COMPARE) |-> i], loaded)
    IN  [k \in 1..Len(kept) |-> data(kept[k])]

\* evaluate_event (practice), all four sessions loaded: one row per practice
\* session with its correlation to the qualifying and to the race order
evaluate_event_practice ==
    [w \in Events |->
        LET ref == mean_lap_time(EventData[w].laps.Q)
            quali_order == classification_order(EventData[w].results, "QFPosition")
            race_ord == classification_order(EventData[w].results, "Position")
        IN  [i \in 1..Len(PracticeSessions) |->
                LET fast == index(session_fast_laps(
                                EventData[w].laps[PracticeSessions[i]], ref))
                IN  [session |-> PracticeSessions[i],
                     qualifying |-> correlation(fast, quali_order),
                     race |-> correlation(fast, race_ord)]]]

\* res.insert(0, "Event", name)
insert_event(res, name) ==
    [k \in 1..Len(res) |-> [c \in {"Event"} |-> name] @@ res[k]]

(***************************************************************************)
(* The aggregation: pd.concat, groupby("session").mean(numeric_only=True)  *)
(* and idxmax.                                                             *)
(***************************************************************************)
\* pd.concat(result_list, ignore_index=True): the rows of all tables
RECURSIVE concat(_)
concat(tables) == IF tables = <<>> THEN <<>> ELSE Head(tables) \o concat(Tail(tables))

\* the code points of the session names: groupby sorts its keys
CodePoints == [FP1 |-> <<70, 80, 49>>, FP2 |-> <<70, 80, 50>>,
               FP3 |-> <<70, 80, 51>>, Q |-> <<81>>]
LexLess(u, v) ==
    \E i \in 1..(Len(v)) :
        /\ \A j \in 1..(i - 1) : j <= Len(u) /\ u[j] = v[j]
        /\ (i > Len(u) \/ u[i] < v[i])

\* the group keys of groupby("session"): the session names of the rows, sorted
group_keys(rows) ==
    LET K == {r.session : r \in Range(rows)}
        place(k) == Cardinality({j \in K : LexLess(CodePoints[j], CodePoints[k])}) + 1
    IN  [i \in 1..Cardinality(K) |-> CHOOSE k \in K : place(k) = i]

\* the numeric columns, those mean(numeric_only=True) averages
NumericColumns(sc) == IF sc = "plot" THEN {"correlation"} ELSE {"qualifying", "race"}

\* The mean of one column of one group as pandas computes it: the values that
\* are not NaN are added with Kahan's compensated summation and the sum is
\* divided by their number.  st = <<sum, compensation, number of values>>.
RECURSIVE kahan_all(_, _)
kahan_all(vals, st) ==
    IF vals = <<>> THEN st
    ELSE LET y == FSub(Head(vals), st[2])
             t == FAdd(st[1], y)
         IN  kahan_all(Tail(vals), <<t, FSub(FSub(t, st[1]), y), st[3] + 1>>)
\* the mean of all values of the group, NaN or not
group_mean_all(vals) ==
    LET st == kahan_all(vals, <<FZero, FZero, 0>>)
    IN  IF st[3] = 0 THEN NaN ELSE FDivInt(st[1], st[3])

RECURSIVE kahan(_, _)
kahan(vals, st) ==
    IF vals = <<>> THEN st
    ELSE IF Head(vals).nan THEN kahan(Tail(vals), st)
    ELSE LET y == FSub(Head(vals), st[2])
             t == FAdd(st[1], y)
         IN  kahan(Tail(vals), <<t, FSub(FSub(t, st[1]), y), st[3] + 1>>)
group_mean(vals) ==
    LET st == kahan(vals, <<FZero, FZero, 0>>)
    IN  IF st[3] = 0 THEN NaN ELSE FDivInt(st[1], st[3])

\* the values of column c in the rows of session k, in row order
column_of(rows, k, c) ==
    LET of_group(r) == r.session = k
        g == SelectSeq(rows, of_group)
    IN  [i \in 1..Len(g) |-> g[i][c]]

\* season_results.groupby("session").mean(numeric_only=True): one row per
\* group key with the mean of every numeric column
groupby_mean(rows, sc) ==
    LET keys == group_keys(rows)
    IN  [i \in 1..Len(keys) |->
            [c \in {"session"} |-> keys[i]] @@
            [c \in NumericColumns(sc) |-> group_mean(column_of(rows, keys[i], c))]]

\* avg.mean(axis=1) for one row of avg: the sum of the values that are not
\* NaN over their number
row_mean(a) ==
    LET q == IF a.qualifying.nan THEN FZero ELSE a.qualifying
        r == IF a.race.nan THEN FZero ELSE a.race
        count == (IF a.qualifying.nan THEN 0 ELSE 1) + (IF a.race.nan THEN 0 ELSE 1)
    IN  IF count = 0 THEN NaN ELSE FDivInt(FAdd(q, r), count)

\* the Series idxmax is taken of: avg["correlation"] (plot) or
\* avg.mean(axis=1) (practice), indexed by session
scores(a, sc) ==
    [i \in 1..Len(a) |->
        [session |-> a[i].session,
         score |-> IF sc = "plot" THEN a[i].correlation ELSE row_mean(a[i])]]

NoLabel == "nan"
\* the label of the last of the largest values
idxmax_last(sr) ==
    LET I == {i \in 1..Len(sr) : ~sr[i].score.nan}
    IN  IF I = {} THEN NoLabel
        ELSE sr[CHOOSE i \in I :
                   /\ \A j \in I : FLeq(sr[j].score, sr[i].score)
                   /\ \A j \in I : j > i => FLess(sr[j].score, sr[i].score)].session
\* Series.idxmax(): the label of the first of the largest values, NaN being
\* skipped; the missing label (with a warning) when every value is NaN
idxmax(sr) ==
    LET I == {i \in 1..Len(sr) : ~sr[i].score.nan}
    IN  IF I = {} THEN NoLabel
        ELSE sr[CHOOSE i \in I :
                   /\ \A j \in I : FLeq(sr[j].score, sr[i].score)
                   /\ \A j \in I : j < i => FLess(sr[j].score, sr[i].score)].session

(***************************************************************************)
(* main.  plot: the plotting loop over the sessions of the first event,    *)
(* the loop over the rounds 1..LastRound, the aggregation.  practice: the  *)
(* loop of analyze_season over the events of the schedule, the             *)
(* aggregation.                                                            *)
(***************************************************************************)
\* the elements of a set of numbers, ascending
Ascend(S) ==
    [i \in 1..Cardinality(S) |-> CHOOSE n \in S : Cardinality({m \in S : m < n}) = i - 1]
\* fastf1.get_event_schedule(SEASON): the round numbers of the events
Schedules == {Ascend(S) : S \in SUBSET (1..NumEvents)}

InitSeason ==
    /\ script \in {"plot", "practice"}
    /\ schedule \in Schedules
    /\ pc = (IF script = "plot" THEN "plot" ELSE "events")
    /\ rnd = 1 /\ plotted = 0
    /\ result_list = <<>> /\ season_results = <<>> /\ avg = <<>>
    /\ best = "none" /\ failure = "none"
    /\ EvalIdle /\ LapsIdle

\* main ends with the exception why
Abort(why) ==
    /\ pc' = "aborted" /\ failure' = why
    /\ UNCHANGED <<script, schedule, rnd, plotted, result_list, season_results,
                   avg, best, evalVars, lapVars>>

\* first_event = schedule.iloc[0]["EventName"] on a schedule without events
NoFirstEvent ==
    /\ pc = "plot" /\ schedule = <<>>
    /\ Abort("empty_schedule")

\* one iteration of the plotting loop: get_session, load, plot_session
PlotSession ==
    /\ pc = "plot" /\ schedule # <<>> /\ plotted < Len(SESSIONS_TO_COMPARE)
    /\ plotted' = plotted + 1
    /\ pc' = (IF plotted' = Len(SESSIONS_TO_COMPARE) THEN "rounds" ELSE "plot")
    /\ UNCHANGED <<script, schedule, rnd, result_list, season_results, avg, best,
                   failure, evalVars, lapVars>>

\* get_session or load of the plotting loop fails
PlotLoadFails ==
    /\ pc = "plot" /\ schedule # <<>> /\ plotted < Len(SESSIONS_TO_COMPARE)
    /\ Abort("plot_unavailable")

\* plot_session fails
PlotRenderFails ==
    /\ pc = "plot" /\ schedule # <<>> /\ plotted < Len(SESSIONS_TO_COMPARE)
    /\ Abort("plot_render")

\* the iterations of the loop over the rounds for a run of rounds that the
\* schedule lacks: each prints and continues
RoundNotFound ==
    /\ pc = "rounds" /\ rnd <= LastRound /\ rnd \notin Range(schedule)
    /\ rnd' = (IF \E n \in Range(schedule) : n > rnd
               THEN CHOOSE n \in Range(schedule) :
                        n > rnd /\ \A m \in Range(schedule) : m > rnd => n <= m
               ELSE LastRound + 1)
    /\ UNCHANGED <<script, pc, schedule, plotted, result_list, season_results,
                   avg, best, failure, evalVars, lapVars>>

\* the race of the round loads: res = evaluate_event(ev), insert, append.
\* The provider holds the data w for the event; the sessions of avail load.
EvaluateEvent ==
    /\ pc = "rounds" /\ rnd <= LastRound /\ rnd \in Range(schedule)
    /\ \E w \in Events, avail \in SUBSET Range(SESSIONS_TO_COMPARE) :
          result_list' = Append(result_list,
                                insert_event(evaluate_event_plot(w, avail), rnd))
    /\ rnd' = rnd + 1
    /\ UNCHANGED <<script, pc, schedule, plotted, season_results, avg, best,
                   failure, evalVars, lapVars>>

\* get_session or load of the race fails in evaluate_event (plot)
RaceUnavailable ==
    /\ pc = "rounds" /\ rnd <= LastRound /\ rnd \in Range(schedule)
    /\ Abort("race_unavailable")

\* one iteration of the loop of analyze_season, the four sessions load
AnalyzeEvent ==
    /\ pc = "events" /\ rnd <= Len(schedule)
    /\ \E w \in Events :
          result_list' = Append(result_list,
                                insert_event(evaluate_event_practice[w], schedule[rnd]))
    /\ rnd' = rnd + 1
    /\ UNCHANGED <<script, pc, schedule, plotted, season_results, avg, best,
                   failure, evalVars, lapVars>>

\* evaluate_event (practice) raises: the event is skipped
SkipEvent ==
    /\ pc = "events" /\ rnd <= Len(schedule)
    /\ rnd' = rnd + 1
    /\ UNCHANGED <<script, pc, schedule, plotted, result_list, season_results,
                   avg, best, failure, evalVars, lapVars>>

LoopDone ==
    \/ pc = "rounds" /\ rnd > LastRound
    \/ pc = "events" /\ rnd > Len(schedule)

\* season_results = pd.concat(result_list, ignore_index=True)
Concat ==
    /\ LoopDone /\ result_list # <<>>
    /\ season_results' = concat(result_list)
    /\ pc' = "groupby"
    /\ UNCHANGED <<script, schedule, rnd, plotted, result_list, avg, best, failure,
                   evalVars, lapVars>>

\* pd.concat of an empty list raises
ConcatFails ==
    /\ LoopDone /\ result_list = <<>>
    /\ Abort("no_objects_to_concatenate")

\* avg = season_results.groupby("session").mean(numeric_only=True)
Groupby ==
    /\ pc = "groupby" /\ season_results # <<>>
    /\ avg' = groupby_mean(season_results, script)
    /\ pc' = "report"
    /\ UNCHANGED <<script, schedule, rnd, plotted, result_list, season_results,
                   best, failure, evalVars, lapVars>>

\* no table has a row, so none has the column "session": groupby raises
GroupbyFails ==
    /\ pc = "groupby" /\ season_results = <<>>
    /\ Abort("no_session_column")

\* best = avg["correlation"].idxmax()  /  avg.mean(axis=1).idxmax()
Report ==
    /\ pc = "report"
    /\ best' = idxmax(scores(avg, script))
    /\ pc' = "done"
    /\ UNCHANGED <<script, schedule, rnd, plotted, result_list, season_results,
                   avg, failure, evalVars, lapVars>>

NextSeason ==
    \/ NoFirstEvent \/ PlotSession \/ PlotLoadFails \/ PlotRenderFails
    \/ RoundNotFound \/ EvaluateEvent \/ RaceUnavailable
    \/ AnalyzeEvent \/ SkipEvent
    \/ Concat \/ ConcatFails \/ Groupby \/ GroupbyFails \/ Report
SpecSeason == InitSeason /\ [][NextSeason]_vars

(***************************************************************************)
(* Claims about the season.                                                *)
(***************************************************************************)
ProviderFailures == {"race_unavailable", "no_objects_to_concatenate", "no_session_column"}

\* C1: a failure of get_session or load during the aggregation only skips
\* the event or session it concerns; main does not end with an exception
\* because of it.
C1_ProviderFailureOnlySkips ==
    ~(pc = "aborted" /\ schedule # <<>> /\ failure \in ProviderFailures)

\* C9: a failure of the plotting loop (a load done for plotting, or the
\* rendering itself) never keeps the season evaluation from running.
C9_PlottingNeverPreventsEvaluation ==
    ~(pc = "aborted" /\ failure \in {"plot_unavailable", "plot_render"})

\* the mean of a sequence of numbers (none of them NaN); NaN when it is empty
RECURSIVE SumOfNumbers(_, _)
SumOfNumbers(vals, st) ==
    IF vals = <<>> THEN st[1]
    ELSE LET y == FSub(Head(vals), st[2])
             t == FAdd(st[1], y)
         IN  SumOfNumbers(Tail(vals), <<t, FSub(FSub(t, st[1]), y)>>)
MeanOfNumbers(vals) ==
    IF vals = <<>> THEN NaN
    ELSE FDivInt(SumOfNumbers(vals, <<FZero, FZero>>), Len(vals))
\* the defined correlations of column c in the rows of session k
Defined(rows, k, c) == SelectSeq(column_of(rows, k, c), IsNumber)
AllRows == UNION {Range(result_list[i]) : i \in 1..Len(result_list)}

\* C3: a no-data correlation is kept in the result table as NaN, the mean of
\* a session is the mean of its defined correlations only, and neither the
\* aggregation nor the report ends with an exception once there is a row.
C3_NoDataExcludedFromMean ==
    /\ pc \in {"groupby", "report", "done"} => Range(season_results) = AllRows
    /\ pc = "report" =>
          \A i \in 1..Len(avg) : \A c \in NumericColumns(script) :
              avg[i][c] = MeanOfNumbers(Defined(season_results, avg[i].session, c))
    /\ pc = "done" => best # "none"
    /\ (pc = "aborted" /\ failure \in {"no_objects_to_concatenate", "no_session_column"})
          => AllRows = {}
C3_Witness ==
    /\ pc = "done" /\ script = "plot" /\ best = "FP3"
    /\ \E r \in Range(season_results) : r.session = "FP1" /\ r.correlation = NaN
    /\ \E i \in 1..Len(avg) : avg[i].session = "FP1" /\ avg[i].correlation = FMinusOne
    /\ \E i \in 1..Len(avg) : avg[i].session = "Q" /\ avg[i].correlation = NaN

\* the session types in their enumeration order
Enumeration == IF script = "plot" THEN SESSIONS_TO_COMPARE ELSE PracticeSessions
\* the mean correlation of the k-th session type; NaN when it has no row
MeanOfSession(k) ==
    LET sr == scores(avg, script)
        I == {i \in 1..Len(sr) : sr[i].session = Enumeration[k]}
    IN  IF I = {} THEN NaN ELSE sr[CHOOSE i \in I : TRUE].score

\* C10: the reported session type has the highest mean correlation, and of
\* the session types that share the highest mean it is the first in the
\* enumeration order; session types without a defined mean do not count.
C10_BestIsFirstHighestMean ==
    pc = "done" =>
        LET D == {k \in 1..Len(Enumeration) : IsNumber(MeanOfSession(k))}
        IN  D # {} =>
                \E k \in D :
                    /\ best = Enumeration[k]
                    /\ \A j \in D : FLeq(MeanOfSession(j), MeanOfSession(k))
                    /\ \A j \in D : j < k => FLess(MeanOfSession(j), MeanOfSession(k))
C10_Witness ==
    /\ pc = "done" /\ script = "plot" /\ best = "FP2"
    /\ IsNumber(MeanOfSession(2)) /\ MeanOfSession(2) = MeanOfSession(3)
    /\ ~IsNumber(MeanOfSession(1)) /\ ~IsNumber(MeanOfSession(4))
=============================================================================
